---- MODULE Spec2Model ----
(***************************************************************************)
(* Edge descriptor builders of src/schema/edge/edge.rs, the edge           *)
(* Annotation merge of src/schema/edge/annotation.rs.                      *)
(*                                                                         *)
(* A chain  to::<T>(n) . cfg* [. from(n2) . cfg*] . descriptor()  or       *)
(* from::<T>(n) . cfg* . descriptor()  is one behaviour: every call of the *)
(* chain is one step.  Option<X> is the sequence <<>> (None) or <<x>>      *)
(* (Some(x)); Vec<X> is a sequence; a type parameter T is the sequence of  *)
(* the "::"-separated segments of type_name::<T>().                        *)
(***************************************************************************)
EXTENDS Naturals, Sequences, FiniteSets

\* ---------------------------------------------------------------- bounds
MaxCalls == 3        \* configuration calls in one chain
MaxOpts == 2         \* options handed to one storage_key call
MaxLog == 3          \* options handed to storage_key over one chain
MaxAnn == 2          \* annotations handed to the annotations calls of one builder
MaxMerge == 3        \* annotations folded by merge

\* ---------------------------------------------------------------- inputs
Names == {"following", "followers"}
Types == {<<"app", "User">>, <<"app", "models", "Node">>}
Tags == {"json:a", "json:b"}
FieldNames == {"owner_id"}
Comments == {"comment"}
RefNames == {"pets"}
ThroughNames == {"friendships"}
TableNames == {"t1", "t2"}
SymbolNames == {"s2"}
SymbolPairs == {<<"s1", "s2">>}
ColumnNames == {"c2"}
ColumnPairs == {<<"c1", "c2">>}

SeqsUpTo(S, n) == UNION {[1..k -> S] : k \in 0..n}

\* ---------------------------------------------------------------- data
Annotation(tag) == [struct_tag |-> tag]

AnnotationDefault == Annotation("")

DescriptorThrough(name, type_) == [name |-> name, type_ |-> type_]

StorageKeyDefault == [table |-> "", symbols |-> <<>>, columns |-> <<>>]

DescriptorDefault ==
    [tag |-> "", type_ |-> "", name |-> "", field |-> "", ref_name |-> "",
     ref_ |-> <<>>, through |-> <<>>, unique |-> FALSE, inverse |-> FALSE,
     required |-> FALSE, immutable |-> FALSE, storage_key |-> <<>>,
     annotations |-> <<>>, comment |-> ""]

DescFields == DOMAIN DescriptorDefault

AssocBuilderDefault == [desc |-> DescriptorDefault]

\* type_name::<T>().rsplit("::").next().unwrap(): the last segment.
typ(T) == T[Len(T)]

\* ---------------------------------------------------------------- constructors
to(name, T) ==
    [desc |-> [DescriptorDefault EXCEPT !.name = name, !.type_ = typ(T)]]

\* Mutation: the standalone constructor forgets `inverse: true`.
from_not_inverse(name, T) ==
    [desc |-> [DescriptorDefault EXCEPT !.name = name, !.type_ = typ(T)]]

from(name, T) ==
    [desc |-> [DescriptorDefault EXCEPT !.name = name, !.type_ = typ(T),
                                        !.inverse = TRUE]]

\* ---------------------------------------------------------------- storage options
table(name) == [opt |-> "table", args |-> <<name>>]
symbol(s) == [opt |-> "symbol", args |-> <<s>>]
symbols(t, f) == [opt |-> "symbols", args |-> <<t, f>>]
column(name) == [opt |-> "column", args |-> <<name>>]
columns(t, f) == [opt |-> "columns", args |-> <<t, f>>]

\* The closure bodies: what calling the boxed option does to the key.
table_call(key, name) == [key EXCEPT !.table = name]
symbol_call(key, s) == [key EXCEPT !.symbols = <<s>>]
symbols_call(key, t, f) == [key EXCEPT !.symbols = <<t, f>>]
column_call(key, name) == [key EXCEPT !.columns = <<name>>]
columns_call(key, t, f) == [key EXCEPT !.columns = <<t, f>>]

option_call(option, key) ==
    CASE option.opt = "table" -> table_call(key, option.args[1])
      [] option.opt = "symbol" -> symbol_call(key, option.args[1])
      [] option.opt = "symbols" -> symbols_call(key, option.args[1], option.args[2])
      [] option.opt = "column" -> column_call(key, option.args[1])
      [] option.opt = "columns" -> columns_call(key, option.args[1], option.args[2])

StorageOptions ==
    {table(n) : n \in TableNames}
    \cup {symbol(s) : s \in SymbolNames}
    \cup {symbols(p[1], p[2]) : p \in SymbolPairs}
    \cup {column(c) : c \in ColumnNames}
    \cup {columns(p[1], p[2]) : p \in ColumnPairs}

\* for option in opts { option(&mut storage_key); }
RECURSIVE apply_options(_, _)
apply_options(key, opts) ==
    IF opts = <<>> THEN key
    ELSE apply_options(option_call(Head(opts), key), Tail(opts))

\* ---------------------------------------------------------------- AssocBuilder
AssocBuilder_unique(self) == [self EXCEPT !.desc.unique = TRUE]
\* Mutation: required() sets the neighbouring flag.
AssocBuilder_required_sets_unique(self) == [self EXCEPT !.desc.unique = TRUE]
AssocBuilder_required(self) == [self EXCEPT !.desc.required = TRUE]
AssocBuilder_immutable(self) == [self EXCEPT !.desc.immutable = TRUE]
AssocBuilder_struct_tag(self, s) == [self EXCEPT !.desc.tag = s]

\* Mutation: the new name goes to the embedded descriptor and the inverse
\* descriptor keeps the association's name.
AssocBuilder_from_swapped(self, name) ==
    [desc |-> [DescriptorDefault EXCEPT !.name = self.desc.name,
                                        !.type_ = self.desc.type_,
                                        !.inverse = TRUE,
                                        !.ref_ = <<[self.desc EXCEPT !.name = name]>>]]

AssocBuilder_from(self, name) ==
    [desc |-> [DescriptorDefault EXCEPT !.name = name,
                                        !.type_ = self.desc.type_,
                                        !.inverse = TRUE,
                                        !.ref_ = <<self.desc>>]]

AssocBuilder_field(self, f) == [self EXCEPT !.desc.field = f]

AssocBuilder_through(self, name, T) ==
    [self EXCEPT !.desc.through = <<DescriptorThrough(name, typ(T))>>]

AssocBuilder_comment(self, c) == [self EXCEPT !.desc.comment = c]

\* Mutation: every call starts from an empty StorageKey.
AssocBuilder_storage_key_replace(self, opts) ==
    [self EXCEPT !.desc.storage_key = <<apply_options(StorageKeyDefault, opts)>>]

AssocBuilder_storage_key(self, opts) ==
    LET storage_key == IF self.desc.storage_key # <<>>
                       THEN self.desc.storage_key[1]
                       ELSE StorageKeyDefault
    IN [self EXCEPT !.desc.storage_key = <<apply_options(storage_key, opts)>>]

\* Mutation: the argument replaces the list.
AssocBuilder_annotations_replace(self, annotations) ==
    [self EXCEPT !.desc.annotations = annotations]

AssocBuilder_annotations(self, annotations) ==
    [self EXCEPT !.desc.annotations = self.desc.annotations \o annotations]

AssocBuilder_descriptor(self) == self.desc

\* ---------------------------------------------------------------- InverseBuilder
\* Mutation: ref(name) fills ref_ with a descriptor of that name.
InverseBuilder_ref_embeds(self, r) ==
    [self EXCEPT !.desc.ref_ = <<[DescriptorDefault EXCEPT !.name = r]>>]
InverseBuilder_ref_(self, r) == [self EXCEPT !.desc.ref_name = r]
\* Mutation: unique() on the inverse side marks the paired association too.
InverseBuilder_unique_both(self) ==
    [self EXCEPT !.desc.unique = TRUE,
                 !.desc.ref_ = IF @ = <<>> THEN @ ELSE <<[@[1] EXCEPT !.unique = TRUE]>>]
InverseBuilder_unique(self) == [self EXCEPT !.desc.unique = TRUE]
InverseBuilder_required(self) == [self EXCEPT !.desc.required = TRUE]
InverseBuilder_immutable(self) == [self EXCEPT !.desc.immutable = TRUE]
\* Mutation: the first tag wins.
InverseBuilder_struct_tag_first(self, s) ==
    [self EXCEPT !.desc.tag = IF @ = "" THEN s ELSE @]
InverseBuilder_struct_tag(self, s) == [self EXCEPT !.desc.tag = s]
InverseBuilder_comment(self, c) == [self EXCEPT !.desc.comment = c]
\* Mutation: field() writes through to the embedded association descriptor.
InverseBuilder_field_through_ref(self, f) ==
    [self EXCEPT !.desc.field = f,
                 !.desc.ref_ = IF @ = <<>> THEN @ ELSE <<[@[1] EXCEPT !.field = f]>>]
InverseBuilder_field(self, f) == [self EXCEPT !.desc.field = f]

InverseBuilder_through(self, name, T) ==
    [self EXCEPT !.desc.through = <<DescriptorThrough(name, typ(T))>>]

InverseBuilder_annotations(self, annotations) ==
    [self EXCEPT !.desc.annotations = self.desc.annotations \o annotations]

InverseBuilder_descriptor(self) == self.desc

\* ---------------------------------------------------------------- Merger
merge(self, other) == Annotation(other.struct_tag)

\* ---------------------------------------------------------------- state
VARIABLES
    kind,       \* the builder type in hand: "none", "assoc" (AssocBuilder), "inverse" (InverseBuilder)
    self,       \* the builder in hand
    result,     \* what descriptor() returned: <<>> before the call, <<d>> after
    ncalls,     \* configuration calls made so far
    ctor,       \* the constructor call that started the chain: <<>> or <<[fn, name, T]>>
    conv,       \* the argument of AssocBuilder::from, when the chain has one: <<>> or <<name>>
    snapshot,   \* the association builder's descriptor when AssocBuilder::from was called
    called,     \* per builder type, the configuration methods called on it
    lastCall,   \* the method called by the last step
    tagArgs,    \* per builder type, the arguments of its struct_tag calls, in call order
    skLog,      \* every option handed to storage_key, in call order then supplied order
    annArgs,    \* per builder type, the argument lists of its annotations calls, in call order
    mAcc,       \* merge fold: the receiver
    mRest,      \* merge fold: the annotations still to merge
    mLast       \* the last merge call: <<>> or <<[recv, other, out]>>

chainVars == <<kind, self, result, ncalls, ctor, conv, snapshot, called,
               lastCall, tagArgs, skLog, annArgs>>
mergeVars == <<mAcc, mRest, mLast>>
vars == <<kind, self, result, ncalls, ctor, conv, snapshot, called,
          lastCall, tagArgs, skLog, annArgs, mAcc, mRest, mLast>>

Annotations == {Annotation(t) : t \in Tags}

\* The argument lists the full chains hand to storage_key and annotations; the
\* storage_key and annotations chains below draw from every list.
StorageArgs ==
    {<<>>, <<table("t1")>>, <<symbol("s2")>>,
     <<table("t2"), columns("c1", "c2"), symbols("s1", "s2")>>}
AnnotationArgs ==
    {<<>>, <<Annotation("json:a")>>, <<Annotation("json:b"), Annotation("json:a")>>}
MergeInputs == {Annotation(t) : t \in Tags \cup {""}}

InitChain ==
    /\ kind = "none"
    /\ self = AssocBuilderDefault
    /\ result = <<>>
    /\ ncalls = 0
    /\ ctor = <<>>
    /\ conv = <<>>
    /\ snapshot = <<>>
    /\ called = [k \in {"assoc", "inverse"} |-> {}]
    /\ lastCall = ""
    /\ tagArgs = [k \in {"assoc", "inverse"} |-> <<>>]
    /\ skLog = <<>>
    /\ annArgs = [k \in {"assoc", "inverse"} |-> <<>>]

Init ==
    /\ InitChain
    /\ mAcc = AnnotationDefault
    /\ mRest = <<>>
    /\ mLast = <<>>

\* ---------------------------------------------------------------- steps
To(name, T) ==
    /\ kind = "none"
    /\ kind' = "assoc"
    /\ self' = to(name, T)
    /\ ctor' = <<[fn |-> "to", name |-> name, T |-> T]>>
    /\ lastCall' = "to"
    /\ UNCHANGED <<result, ncalls, conv, snapshot, called, tagArgs, skLog, annArgs>>
    /\ UNCHANGED mergeVars

From(name, T) ==
    /\ kind = "none"
    /\ kind' = "inverse"
    /\ self' = from(name, T)
    /\ ctor' = <<[fn |-> "from", name |-> name, T |-> T]>>
    /\ lastCall' = "from"
    /\ UNCHANGED <<result, ncalls, conv, snapshot, called, tagArgs, skLog, annArgs>>
    /\ UNCHANGED mergeVars

\* One configuration call `op` on a builder of type k, which returns newSelf.
Config(k, op, newSelf) ==
    /\ kind = k
    /\ result = <<>>
    /\ ncalls < MaxCalls
    /\ self' = newSelf
    /\ ncalls' = ncalls + 1
    /\ lastCall' = op
    /\ called' = [called EXCEPT ![k] = @ \cup {op}]
    /\ UNCHANGED <<kind, result, ctor, conv, snapshot>>
    /\ UNCHANGED mergeVars

AssocUnique ==
    /\ Config("assoc", "unique", AssocBuilder_unique(self))
    /\ UNCHANGED <<tagArgs, skLog, annArgs>>

AssocRequired ==
    /\ Config("assoc", "required", AssocBuilder_required(self))
    /\ UNCHANGED <<tagArgs, skLog, annArgs>>

AssocImmutable ==
    /\ Config("assoc", "immutable", AssocBuilder_immutable(self))
    /\ UNCHANGED <<tagArgs, skLog, annArgs>>

AssocStructTag(s) ==
    /\ Config("assoc", "struct_tag", AssocBuilder_struct_tag(self, s))
    /\ tagArgs' = [tagArgs EXCEPT !["assoc"] = Append(@, s)]
    /\ UNCHANGED <<skLog, annArgs>>

AssocField(f) ==
    /\ Config("assoc", "field", AssocBuilder_field(self, f))
    /\ UNCHANGED <<tagArgs, skLog, annArgs>>

AssocThrough(name, T) ==
    /\ Config("assoc", "through", AssocBuilder_through(self, name, T))
    /\ UNCHANGED <<tagArgs, skLog, annArgs>>

AssocComment(c) ==
    /\ Config("assoc", "comment", AssocBuilder_comment(self, c))
    /\ UNCHANGED <<tagArgs, skLog, annArgs>>

AssocStorageKey(opts) ==
    /\ Len(skLog) + Len(opts) <= MaxLog
    /\ Config("assoc", "storage_key", AssocBuilder_storage_key(self, opts))
    /\ skLog' = skLog \o opts
    /\ UNCHANGED <<tagArgs, annArgs>>

AssocAnnotations(annotations) ==
    /\ kind = "assoc"
    /\ Len(self.desc.annotations) + Len(annotations) <= MaxAnn
    /\ Config("assoc", "annotations", AssocBuilder_annotations(self, annotations))
    /\ annArgs' = [annArgs EXCEPT !["assoc"] = Append(@, annotations)]
    /\ UNCHANGED <<tagArgs, skLog>>

AssocFrom(name) ==
    /\ kind = "assoc"
    /\ result = <<>>
    /\ kind' = "inverse"
    /\ self' = AssocBuilder_from(self, name)
    /\ conv' = <<name>>
    /\ snapshot' = <<self.desc>>
    /\ lastCall' = "from"
    /\ UNCHANGED <<result, ncalls, ctor, called, tagArgs, skLog, annArgs>>
    /\ UNCHANGED mergeVars

AssocDescriptor ==
    /\ kind = "assoc"
    /\ result = <<>>
    /\ result' = <<AssocBuilder_descriptor(self)>>
    /\ lastCall' = "descriptor"
    /\ UNCHANGED <<kind, self, ncalls, ctor, conv, snapshot, called, tagArgs, skLog, annArgs>>
    /\ UNCHANGED mergeVars

InverseRef(r) ==
    /\ Config("inverse", "ref_", InverseBuilder_ref_(self, r))
    /\ UNCHANGED <<tagArgs, skLog, annArgs>>

InverseUnique ==
    /\ Config("inverse", "unique", InverseBuilder_unique(self))
    /\ UNCHANGED <<tagArgs, skLog, annArgs>>

InverseRequired ==
    /\ Config("inverse", "required", InverseBuilder_required(self))
    /\ UNCHANGED <<tagArgs, skLog, annArgs>>

InverseImmutable ==
    /\ Config("inverse", "immutable", InverseBuilder_immutable(self))
    /\ UNCHANGED <<tagArgs, skLog, annArgs>>

InverseStructTag(s) ==
    /\ Config("inverse", "struct_tag", InverseBuilder_struct_tag(self, s))
    /\ tagArgs' = [tagArgs EXCEPT !["inverse"] = Append(@, s)]
    /\ UNCHANGED <<skLog, annArgs>>

InverseComment(c) ==
    /\ Config("inverse", "comment", InverseBuilder_comment(self, c))
    /\ UNCHANGED <<tagArgs, skLog, annArgs>>

InverseField(f) ==
    /\ Config("inverse", "field", InverseBuilder_field(self, f))
    /\ UNCHANGED <<tagArgs, skLog, annArgs>>

InverseThrough(name, T) ==
    /\ Config("inverse", "through", InverseBuilder_through(self, name, T))
    /\ UNCHANGED <<tagArgs, skLog, annArgs>>

InverseAnnotations(annotations) ==
    /\ kind = "inverse"
    /\ Len(self.desc.annotations) + Len(annotations) <= MaxAnn
    /\ Config("inverse", "annotations", InverseBuilder_annotations(self, annotations))
    /\ annArgs' = [annArgs EXCEPT !["inverse"] = Append(@, annotations)]
    /\ UNCHANGED <<tagArgs, skLog>>

InverseDescriptor ==
    /\ kind = "inverse"
    /\ result = <<>>
    /\ result' = <<InverseBuilder_descriptor(self)>>
    /\ lastCall' = "descriptor"
    /\ UNCHANGED <<kind, self, ncalls, ctor, conv, snapshot, called, tagArgs, skLog, annArgs>>
    /\ UNCHANGED mergeVars

Next ==
    \/ \E name \in Names, T \in Types : To(name, T)
    \/ \E name \in Names, T \in Types : From(name, T)
    \/ AssocUnique
    \/ AssocRequired
    \/ AssocImmutable
    \/ \E s \in Tags : AssocStructTag(s)
    \/ \E f \in FieldNames : AssocField(f)
    \/ \E name \in ThroughNames, T \in Types : AssocThrough(name, T)
    \/ \E c \in Comments : AssocComment(c)
    \/ \E opts \in StorageArgs : AssocStorageKey(opts)
    \/ \E annotations \in AnnotationArgs : AssocAnnotations(annotations)
    \/ \E name \in Names : AssocFrom(name)
    \/ AssocDescriptor
    \/ \E r \in RefNames : InverseRef(r)
    \/ InverseUnique
    \/ InverseRequired
    \/ InverseImmutable
    \/ \E s \in Tags : InverseStructTag(s)
    \/ \E c \in Comments : InverseComment(c)
    \/ \E f \in FieldNames : InverseField(f)
    \/ \E name \in ThroughNames, T \in Types : InverseThrough(name, T)
    \/ \E annotations \in AnnotationArgs : InverseAnnotations(annotations)
    \/ InverseDescriptor

Spec == Init /\ [][Next]_vars

\* ---------------------------------------------------------------- storage_key chains
\* to::<T>(n) . storage_key(opts)* . descriptor(), over every option list.
NextStorage ==
    \/ \E name \in Names, T \in Types : To(name, T)
    \/ \E opts \in SeqsUpTo(StorageOptions, MaxOpts) : AssocStorageKey(opts)
    \/ AssocDescriptor

SpecStorage == Init /\ [][NextStorage]_vars

\* ---------------------------------------------------------------- annotations chains
\* The chains whose configuration calls are annotations(...), over every
\* argument list.
NextAnn ==
    \/ \E name \in Names, T \in Types : To(name, T)
    \/ \E name \in Names, T \in Types : From(name, T)
    \/ \E annotations \in SeqsUpTo(Annotations, MaxAnn) : AssocAnnotations(annotations)
    \/ \E name \in Names : AssocFrom(name)
    \/ AssocDescriptor
    \/ \E annotations \in SeqsUpTo(Annotations, MaxAnn) : InverseAnnotations(annotations)
    \/ InverseDescriptor

SpecAnn == Init /\ [][NextAnn]_vars

\* ---------------------------------------------------------------- merge fold
\* Merging two or more annotations of the same type: the receiver is merged
\* with each further annotation in turn.
InitMerge ==
    /\ InitChain
    /\ mAcc \in MergeInputs
    /\ mRest \in SeqsUpTo(MergeInputs, MaxMerge)
    /\ mLast = <<>>

MergeStep ==
    /\ mRest # <<>>
    /\ mLast' = <<[recv |-> mAcc, other |-> Head(mRest), out |-> merge(mAcc, Head(mRest))]>>
    /\ mAcc' = merge(mAcc, Head(mRest))
    /\ mRest' = Tail(mRest)
    /\ UNCHANGED chainVars

NextMerge == MergeStep

SpecMerge == InitMerge /\ [][NextMerge]_vars

\* ================================================================ properties
Last(q) == q[Len(q)]

\* The descriptors a chain has in hand: the builder's, and the extracted one.
Extracted == result # <<>>
Paired == conv # <<>>

\* ---------------------------------------------------------------- C1
\* C1: a descriptor of an association builder has inverse = FALSE and a
\* descriptor of an inverse builder (from from(...) or AssocBuilder::from) has
\* inverse = TRUE, after every sequence of configuration calls, in the builder
\* and in what descriptor() returns.
C1_InverseFlag ==
    /\ kind = "assoc" => self.desc.inverse = FALSE
    /\ kind = "inverse" => self.desc.inverse = TRUE
    /\ Extracted => result[1].inverse = (kind = "inverse")

C1_Witness ==
    /\ Extracted
    /\ ctor[1].fn = "from"
    /\ ncalls = MaxCalls
    /\ result[1].inverse = TRUE
    /\ result[1].unique = TRUE

\* ---------------------------------------------------------------- C2
\* C2: to::<T>(n1)...from(n2)...descriptor() has name n2, type typ(T), a
\* present ref, and ref.name n1, whatever is configured before and after.
C2_PairedNames ==
    Paired =>
        /\ self.desc.name = conv[1]
        /\ self.desc.type_ = typ(ctor[1].T)
        /\ self.desc.ref_ # <<>>
        /\ self.desc.ref_[1].name = ctor[1].name
        /\ Extracted =>
            /\ result[1].name = conv[1]
            /\ result[1].type_ = typ(ctor[1].T)
            /\ result[1].ref_ # <<>>
            /\ result[1].ref_[1].name = ctor[1].name

C2_Witness ==
    /\ Extracted
    /\ Paired
    /\ ctor[1].name = "following"
    /\ conv[1] = "followers"
    /\ called["assoc"] # {}
    /\ called["inverse"] # {}
    /\ result[1].name = "followers"
    /\ result[1].ref_[1].name = "following"

\* ---------------------------------------------------------------- C3
\* C3: in a paired chain ref.unique is TRUE exactly when unique() was called on
\* the association builder, and the inverse descriptor's unique is TRUE
\* exactly when unique() was called on the inverse builder.
C3_UniqueIndependent ==
    Paired =>
        /\ self.desc.ref_[1].unique = ("unique" \in called["assoc"])
        /\ self.desc.unique = ("unique" \in called["inverse"])
        /\ Extracted =>
            /\ result[1].ref_[1].unique = ("unique" \in called["assoc"])
            /\ result[1].unique = ("unique" \in called["inverse"])

\* The four rows of the cardinality table, as extracted descriptors.
Cardinality_m2m == Extracted /\ Paired /\ ~result[1].ref_[1].unique /\ ~result[1].unique
Cardinality_o2m == Extracted /\ Paired /\ ~result[1].ref_[1].unique /\ result[1].unique
Cardinality_m2o == Extracted /\ Paired /\ result[1].ref_[1].unique /\ ~result[1].unique
Cardinality_o2o == Extracted /\ Paired /\ result[1].ref_[1].unique /\ result[1].unique

C3_Witness ==
    /\ Cardinality_m2o
    /\ "unique" \in called["assoc"]
    /\ called["inverse"] # {}

\* ---------------------------------------------------------------- C4
\* The value the last option of `log` among `opts` wrote, `none` when there is none.
LastWritten(log, opts, none) ==
    LET idx == {i \in 1..Len(log) : log[i].opt \in opts}
    IN IF idx = {} THEN none
       ELSE log[CHOOSE i \in idx : \A j \in idx : j <= i].args

StorageKeyOf(d) ==
    /\ (d.storage_key # <<>>) = ("storage_key" \in called["assoc"])
    /\ d.storage_key # <<>> =>
        /\ d.storage_key[1] = apply_options(StorageKeyDefault, skLog)
        /\ <<d.storage_key[1].table>> = LastWritten(skLog, {"table"}, <<"">>)
        /\ d.storage_key[1].symbols = LastWritten(skLog, {"symbol", "symbols"}, <<>>)
        /\ d.storage_key[1].columns = LastWritten(skLog, {"column", "columns"}, <<>>)

\* C4: after any number of storage_key calls on an association builder the
\* StorageKey is all options of all calls applied in order to an empty key:
\* each field holds what the last option targeting it wrote, and the default
\* when no option targets it.
C4_StorageKeyMerge ==
    /\ kind = "assoc" => StorageKeyOf(self.desc)
    /\ kind = "assoc" /\ Extracted => StorageKeyOf(result[1])

C4_Witness ==
    /\ Extracted
    /\ kind = "assoc"
    /\ ncalls = 2
    /\ Len(skLog) = 3
    /\ skLog[1].opt = "table"
    /\ skLog[2].opt = "table"
    /\ skLog[1] # skLog[2]
    /\ skLog[3].opt = "symbol"
    /\ result[1].storage_key[1].table = skLog[2].args[1]
    /\ result[1].storage_key[1].columns = <<>>

\* ---------------------------------------------------------------- C5
\* C5: a.merge(other) takes other's struct_tag when other sets it (non-empty)
\* and keeps the receiver's struct_tag when other leaves it empty.
C5_MergeKeepsUnset ==
    mLast # <<>> =>
        mLast[1].out.struct_tag =
            IF mLast[1].other.struct_tag # "" THEN mLast[1].other.struct_tag
            ELSE mLast[1].recv.struct_tag

\* ---------------------------------------------------------------- C6
RECURSIVE Flatten(_)
Flatten(qs) == IF qs = <<>> THEN <<>> ELSE Head(qs) \o Flatten(Tail(qs))

RECURSIVE SumLen(_)
SumLen(qs) == IF qs = <<>> THEN 0 ELSE Len(Head(qs)) + SumLen(Tail(qs))

AnnotationsOf(d, k) ==
    /\ d.annotations = Flatten(annArgs[k])
    /\ Len(d.annotations) = SumLen(annArgs[k])

\* C6: on both builders the annotation list is the concatenation of the
\* arguments of the annotations calls in call order, its length the sum of
\* their lengths.
C6_AnnotationsAppend ==
    /\ kind # "none" => AnnotationsOf(self.desc, kind)
    /\ Extracted => AnnotationsOf(result[1], kind)
    /\ Paired => AnnotationsOf(self.desc.ref_[1], "assoc")

C6_Witness ==
    /\ Extracted
    /\ kind = "inverse"
    /\ Len(annArgs["inverse"]) = 2
    /\ annArgs["inverse"][1] # <<>>
    /\ annArgs["inverse"][2] # <<>>
    /\ annArgs["inverse"][1] # annArgs["inverse"][2]
    /\ Len(result[1].annotations) = 2

\* ---------------------------------------------------------------- C7
\* C7: on both builders the tag is the argument of the last struct_tag call,
\* whatever other calls are interleaved.
C7_StructTagLastWins ==
    /\ kind # "none" /\ tagArgs[kind] # <<>> => self.desc.tag = Last(tagArgs[kind])
    /\ Extracted /\ tagArgs[kind] # <<>> => result[1].tag = Last(tagArgs[kind])

C7_Witness ==
    /\ Extracted
    /\ Len(tagArgs[kind]) = 2
    /\ tagArgs[kind][1] # tagArgs[kind][2]
    /\ Cardinality(called[kind]) = 2
    /\ result[1].tag = tagArgs[kind][2]

\* ---------------------------------------------------------------- C8
RefShape(d) ==
    /\ (d.ref_ # <<>>) = Paired
    /\ ctor[1].fn = "from" => d.ref_ = <<>>
    /\ d.inverse = FALSE => d.ref_ = <<>>
    /\ d.ref_ # <<>> => d.ref_[1].inverse = FALSE /\ d.ref_[1].ref_ = <<>>

\* C8: ref is present exactly on a descriptor that came through
\* AssocBuilder::from; a standalone from(...) chain and an association chain
\* have ref = None, and an embedded ref has inverse = FALSE and ref = None.
C8_RefOnlyWhenPaired ==
    /\ kind # "none" => RefShape(self.desc)
    /\ Extracted => RefShape(result[1])

C8_Witness ==
    /\ Extracted
    /\ ctor[1].fn = "from"
    /\ "ref_" \in called["inverse"]
    /\ result[1].ref_name = "pets"
    /\ result[1].ref_ = <<>>

\* ---------------------------------------------------------------- C9
\* The descriptor fields a configuration method targets.
Target(op) ==
    CASE op = "unique" -> "unique"
      [] op = "required" -> "required"
      [] op = "immutable" -> "immutable"
      [] op = "struct_tag" -> "tag"
      [] op = "field" -> "field"
      [] op = "through" -> "through"
      [] op = "comment" -> "comment"
      [] op = "storage_key" -> "storage_key"
      [] op = "annotations" -> "annotations"
      [] op = "ref_" -> "ref_name"
      [] OTHER -> ""

OwnFields == DescFields \ {"name", "type_", "inverse", "ref_"}

\* C9: the embedded ref is the association descriptor as it was when from()
\* was called, no later call on the inverse builder changes it, and right
\* after from() the inverse descriptor's own fields are at their defaults.
C9_RefIsSnapshot ==
    Paired =>
        /\ self.desc.ref_ = snapshot
        /\ Extracted => result[1].ref_ = snapshot
        /\ lastCall = "from" =>
            \A f \in OwnFields : self.desc[f] = DescriptorDefault[f]

C9_Witness ==
    /\ Extracted
    /\ Paired
    /\ snapshot[1].tag # ""
    /\ snapshot[1].storage_key # <<>>
    /\ result[1].tag # ""
    /\ result[1].tag # snapshot[1].tag
    /\ result[1].ref_[1].tag = snapshot[1].tag
    /\ result[1].storage_key = <<>>

\* ---------------------------------------------------------------- C10
ConfigOps ==
    {"unique", "required", "immutable", "struct_tag", "field", "through",
     "comment", "storage_key", "annotations", "ref_"}

DefaultsKept(d) ==
    \A op \in ConfigOps :
        op \notin called[kind] => d[Target(op)] = DescriptorDefault[Target(op)]

\* C10: a configuration call changes only the field it targets; a field whose
\* setter was never called on the builder is at its default in the builder and
\* in the extracted descriptor; unique, required and immutable never go back
\* to FALSE on a builder.
C10_Frame ==
    [][/\ ncalls' = ncalls + 1 =>
            \A f \in DescFields \ {Target(lastCall')} : self'.desc[f] = self.desc[f]
       /\ kind' # "none" => DefaultsKept(self.desc)'
       /\ result' # <<>> => DefaultsKept(result[1])'
       /\ kind' = kind =>
            \A f \in {"unique", "required", "immutable"} :
                self.desc[f] => self'.desc[f]
      ]_vars

C10_Witness ==
    /\ Extracted
    /\ kind = "assoc"
    /\ called["assoc"] = {"required", "comment"}
    /\ result[1].required = TRUE
    /\ result[1].comment = "comment"
    /\ result[1].unique = FALSE
    /\ result[1].inverse = FALSE

====
